---- MODULE Spec2Model ----
(***************************************************************************)
(* A model of the dat-to-excel converters: the format sniffer, the         *)
(* structured reader, the data cleaner and the spreadsheet exporter of     *)
(* convert_dat_to_excel.py, and the save step of convert_dbf_to_excel.py.  *)
(*                                                                         *)
(* Text is a sequence of code points (naturals), so that character         *)
(* classes, stripping and replacement are computed as the code computes    *)
(* them.  A Python None / NaN is the empty tuple <<>>, a value x that may  *)
(* be None is <<x>>.                                                       *)
(***************************************************************************)
EXTENDS Integers, Sequences, FiniteSets, TLC

VARIABLES
    file,     \* the files on disk: the input file [status, lines, chardet],
              \* or, for an export, the directories and the files written
    reader,   \* the SybaseDatReader object: [encoding, data, detected_format]
    pc,       \* position of the running call
    arg,      \* the arguments of the running call
    ret,      \* what the call returned (or how it ended)
    trace,    \* the operations the current call has invoked, in order
    ncalls    \* how many calls the caller has made on the reader

vars == <<file, reader, pc, arg, ret, trace, ncalls>>

(***************************************************************************)
(* Bounds of the model.                                                    *)
(***************************************************************************)
MaxFileLines == 2
MaxLineLen == 1

(***************************************************************************)
(* Generic helpers.                                                        *)
(***************************************************************************)
None == <<>>
Some(x) == <<x>>

\* All sequences over S of length 0..n.
SeqsUpTo(S, n) == UNION {[1..k -> S] : k \in 0..n}

Min(a, b) == IF a < b THEN a ELSE b

\* s[1..n], as Python's s[:n]
Take(s, n) == SubSeq(s, 1, Min(n, Len(s)))

\* str.count(c) for a one-character c: the number of positions holding c
RECURSIVE CountChar(_, _)
CountChar(line, c) ==
    IF line = <<>> THEN 0
    ELSE (IF Head(line) = c THEN 1 ELSE 0) + CountChar(Tail(line), c)

(***************************************************************************)
(* The input file and SybaseDatReader.__init__.                            *)
(***************************************************************************)
\* A file whose status is "undecodable" holds bytes that only a
\* byte-preserving encoding decodes; "missing" and "denied" fail at open.
CanOpen(f) == f.status \in {"ok", "undecodable"}

\* open(filepath, 'r', encoding=enc) and reading it through; enc is None
\* (the platform default) or a label
CanDecode(f, enc) ==
    \/ f.status = "ok"
    \/ f.status = "undecodable" /\ enc = Some("latin-1")

\* the exception that opening or decoding raises
IOError(f) ==
    CASE f.status = "missing" -> "FileNotFoundError"
      [] f.status = "denied" -> "PermissionError"
      [] OTHER -> "UnicodeDecodeError"

NewReader(enc) == [encoding |-> enc, data |-> None, detected_format |-> None]

NoChardet == [encoding |-> None, confidence |-> 0]

(***************************************************************************)
(* SybaseDatReader.detect_delimiter                                        *)
(***************************************************************************)
\* the candidates, in the order of the list: tab, pipe, comma, semicolon, \x01
delimiters == <<9, 124, 44, 59, 1>>

\* the default of the parameter sample_lines
sample_lines_default == 10

\* delimiter_counts after the loop over the first sample_lines lines
RECURSIVE delimiter_counts(_, _)
delimiter_counts(lines, d) ==
    IF lines = <<>> THEN 0
    ELSE CountChar(Head(lines), d) + delimiter_counts(Tail(lines), d)

\* a variant of best_delimiter in which the last of several maxima wins
best_delimiter_last_wins(counts) ==
    LET i == CHOOSE i \in 1..Len(delimiters) :
                 /\ \A j \in 1..Len(delimiters) : counts[j] <= counts[i]
                 /\ \A j \in (i+1)..Len(delimiters) : counts[j] < counts[i]
    IN i

\* max(delimiter_counts, key=delimiter_counts.get): the first key, in
\* insertion order, whose count no other key's count exceeds
best_delimiter(counts) ==
    LET i == CHOOSE i \in 1..Len(delimiters) :
                 /\ \A j \in 1..Len(delimiters) : counts[j] <= counts[i]
                 /\ \A j \in 1..(i-1) : counts[j] < counts[i]
    IN i

\* a variant of detect_delimiter without the test that the count is positive
detect_delimiter_no_zero_test(f, enc, sample_lines) ==
    IF ~CanDecode(f, enc) THEN None
    ELSE LET sampled == Take(f.lines, sample_lines)
             counts == [j \in 1..Len(delimiters) |->
                            delimiter_counts(sampled, delimiters[j])]
             best == best_delimiter(counts)
         IN Some(delimiters[best])

\* the whole method: None when open or decoding raises
detect_delimiter(f, enc, sample_lines) ==
    IF ~CanDecode(f, enc) THEN None
    ELSE LET sampled == Take(f.lines, sample_lines)
             counts == [j \in 1..Len(delimiters) |->
                            delimiter_counts(sampled, delimiters[j])]
             best == best_delimiter(counts)
         IN IF counts[best] > 0 THEN Some(delimiters[best]) ELSE None

(***************************************************************************)
(* Specification SpecDelim: detect_delimiter on every small file.          *)
(***************************************************************************)
DelimAlphabet == {9, 124, 44, 59, 1, 97}

DelimFiles ==
    {[status |-> "ok", lines |-> ls, chardet |-> Some(NoChardet)] :
        ls \in SeqsUpTo(SeqsUpTo(DelimAlphabet, MaxLineLen), MaxFileLines)}
    \cup {[status |-> s, lines |-> <<<<9>>>>, chardet |-> Some(NoChardet)] :
              s \in {"missing", "denied", "undecodable"}}

InitDelim ==
    /\ file \in DelimFiles
    /\ reader \in {NewReader(Some(e)) : e \in {"latin-1", "utf-8"}}
    /\ file.status = "ok" => reader.encoding = Some("utf-8")
    /\ pc = "start"
    /\ arg \in {[sample_lines |-> n] : n \in {1, sample_lines_default}}
    /\ ret = None
    /\ trace = <<>>
    /\ ncalls = 0

DetectDelimiter ==
    /\ pc = "start"
    /\ ret' = detect_delimiter(file, reader.encoding, arg.sample_lines)
    /\ pc' = "done"
    /\ trace' = Append(trace, "detect_delimiter")
    /\ UNCHANGED <<file, reader, arg, ncalls>>

NextDelim == DetectDelimiter

SpecDelim == InitDelim /\ [][NextDelim]_vars

\* the summed count of candidate j over the sampled lines, counted
\* position by position
SampledCount(j) ==
    Cardinality({<<l, p>> \in (1..Min(arg.sample_lines, Len(file.lines))) \X (1..MaxLineLen + 1) :
                    /\ p <= Len(file.lines[l])
                    /\ file.lines[l][p] = delimiters[j]})

Maximal == {i \in 1..Len(delimiters) :
              \A j \in 1..Len(delimiters) : SampledCount(j) <= SampledCount(i)}

\* C13: when two or more candidates share the maximal strictly positive
\* count, the completed scan returns the one that comes first in the order
\* tab, pipe, comma, semicolon, \x01; tab wins every tie it takes part in.
C13_FirstOfTiedWins ==
    (/\ pc = "done"
     /\ CanDecode(file, reader.encoding)
     /\ Cardinality(Maximal) >= 2
     /\ \E i \in Maximal : SampledCount(i) > 0) =>
        /\ \E i \in Maximal : /\ ret = Some(delimiters[i])
                               /\ \A j \in Maximal : i <= j
        /\ 1 \in Maximal => ret = Some(9)

C13_Witness ==
    /\ pc = "done"
    /\ CanDecode(file, reader.encoding)
    /\ Maximal = {2, 3}
    /\ SampledCount(2) = 1
    /\ ret = Some(124)

(***************************************************************************)
(* SybaseDatReader.detect_encoding                                         *)
(***************************************************************************)
\* the confidence threshold 0.7; confidences are counted in tenths
confidence_threshold == 7

Return(v) == [kind |-> "return", value |-> v]
Raise(e) == [kind |-> "raise", value |-> e]

\* a variant of detect_encoding_try that accepts a confidence of exactly 0.7
detect_encoding_try_at_threshold(f) ==
    IF ~CanOpen(f) THEN Raise(IOError(f))
    ELSE IF f.chardet = None THEN Raise("Exception")
    ELSE LET result == f.chardet[1]
             detected == result.encoding
             confidence == result.confidence
         IN IF detected # None /\ confidence >= confidence_threshold
            THEN Return(detected[1])
            ELSE Return("latin-1")

\* the body of the try block: open(filepath, 'rb'), chardet.detect, the test
detect_encoding_try(f) ==
    IF ~CanOpen(f) THEN Raise(IOError(f))
    ELSE IF f.chardet = None THEN Raise("Exception")
    ELSE LET result == f.chardet[1]
             detected == result.encoding
             confidence == result.confidence
         IN IF detected # None /\ confidence > confidence_threshold
            THEN Return(detected[1])
            ELSE Return("latin-1")

\* the whole method: except Exception returns 'latin-1'
detect_encoding(f) ==
    LET r == detect_encoding_try(f)
    IN IF r.kind = "raise" THEN Return("latin-1") ELSE r

(***************************************************************************)
(* Specification SpecEnc: detect_encoding on every classifier answer.      *)
(***************************************************************************)
Labels == {"utf-8", "ascii", "latin-1"}

ChardetResults ==
    {None}
    \cup {Some([encoding |-> None, confidence |-> 0])}
    \cup {Some([encoding |-> Some(l), confidence |-> c]) :
              l \in Labels, c \in 0..10}

EncFiles ==
    {[status |-> s, lines |-> <<>>, chardet |-> cd] :
        s \in {"ok", "undecodable", "missing", "denied"}, cd \in ChardetResults}

InitEnc ==
    /\ file \in EncFiles
    /\ reader = NewReader(None)
    /\ pc = "start"
    /\ arg = [sample_size |-> 10000]
    /\ ret = Return("")
    /\ trace = <<>>
    /\ ncalls = 0

DetectEncoding ==
    /\ pc = "start"
    /\ ret' = detect_encoding(file)
    /\ pc' = "done"
    /\ trace' = Append(trace, "detect_encoding")
    /\ UNCHANGED <<file, reader, arg, ncalls>>

NextEnc == DetectEncoding

SpecEnc == InitEnc /\ [][NextEnc]_vars

\* the classifier gave a label with a confidence strictly above 0.7
Confident(f) ==
    /\ CanOpen(f)
    /\ f.chardet # None
    /\ f.chardet[1].encoding # None
    /\ f.chardet[1].confidence * 10 > 70

\* C8: detect_encoding never raises; it returns the classifier's label when
\* a label exists with confidence strictly above 0.7, and 'latin-1' in every
\* other case (confidence <= 0.7, no label, reading or detection raising).
C8_LabelOnlyAboveThreshold ==
    pc = "done" =>
        /\ ret.kind = "return"
        /\ Confident(file) => ret.value = file.chardet[1].encoding[1]
        /\ ~Confident(file) => ret.value = "latin-1"

C8_Witness ==
    /\ pc = "done"
    /\ CanOpen(file)
    /\ file.chardet = Some([encoding |-> Some("utf-8"), confidence |-> 7])
    /\ ret = Return("latin-1")

(***************************************************************************)
(* SybaseDatReader._detect_fixed_widths                                    *)
(***************************************************************************)
\* the default of the parameter sample_lines of _detect_fixed_widths
fw_sample_lines_default == 100

MaxLen(lines) ==
    IF lines = <<>> THEN 0
    ELSE LET i == CHOOSE i \in 1..Len(lines) :
                      \A j \in 1..Len(lines) : Len(lines[j]) <= Len(lines[i])
         IN Len(lines[i])

\* all(pos < len(line) and line[pos] == ' ' for line in lines), pos 0-based
is_space_position(lines, pos) ==
    \A l \in 1..Len(lines) : pos < Len(lines[l]) /\ lines[l][pos + 1] = 32

\* a variant of widths_loop that keeps every shared space position after prev
RECURSIVE widths_loop_every_space(_, _, _, _)
widths_loop_every_space(lines, pos, prev, maxlen) ==
    IF pos >= maxlen THEN <<None>>
    ELSE IF is_space_position(lines, pos) /\ pos - prev > 0
         THEN <<Some(pos - prev)>>
              \o widths_loop_every_space(lines, pos + 1, pos, maxlen)
         ELSE widths_loop_every_space(lines, pos + 1, prev, maxlen)

\* the loop over space_positions, from position pos on: a position is kept
\* when it lies more than 1 after prev, and then becomes prev
RECURSIVE widths_loop(_, _, _, _)
widths_loop(lines, pos, prev, maxlen) ==
    IF pos >= maxlen THEN <<None>>
    ELSE IF is_space_position(lines, pos) /\ pos - prev > 1
         THEN <<Some(pos - prev)>> \o widths_loop(lines, pos + 1, pos, maxlen)
         ELSE widths_loop(lines, pos + 1, prev, maxlen)

\* the whole method: None when open or decoding raises, when there are no
\* lines and when no position is a space in every line
detect_fixed_widths(f, enc, sample_lines) ==
    IF ~CanDecode(f, enc) THEN None
    ELSE LET lines == Take(f.lines, sample_lines)
             maxlen == MaxLen(lines)
         IN IF lines = <<>> THEN None
            ELSE IF \E pos \in 0..(maxlen - 1) : is_space_position(lines, pos)
                 THEN Some(widths_loop(lines, 0, 0, maxlen))
                 ELSE None

(***************************************************************************)
(* The pandas readers, external to the repository: they raise what opening *)
(* or decoding raises, raise on a file without lines, and may fail for     *)
(* reasons of their own (lib_ok).                                          *)
(***************************************************************************)
pandas_read(f, enc, lib_ok) ==
    IF ~CanDecode(f, enc) THEN Raise(IOError(f))
    ELSE IF f.lines = <<>> THEN Raise("EmptyDataError")
    ELSE IF ~lib_ok THEN Raise("ParserError")
    ELSE Return("DataFrame")

(***************************************************************************)
(* SybaseDatReader.read_delimited and read_fixed_width.  Each gives the    *)
(* reader after the call, how the call ended and the operations invoked.   *)
(***************************************************************************)
Table(format, delimiter, widths, enc) ==
    [format |-> format, delimiter |-> delimiter, widths |-> widths,
     encoding |-> enc]

\* a variant of read_delimited without the tab default: with no delimiter
\* detected the parse is left to read_csv's own default, the comma
read_delimited_no_tab_default(f, rd, delimiter, lib_ok) ==
    LET detected == detect_delimiter(f, rd.encoding, sample_lines_default)
        delim == IF delimiter # None THEN delimiter[1]
                 ELSE IF detected # None THEN <<detected[1]>>
                 ELSE <<44>>
        r == pandas_read(f, rd.encoding, lib_ok)
        data == Table("delimited", Some(delim), None, rd.encoding)
        ops == <<"read_delimited">>
               \o (IF delimiter = None THEN <<"detect_delimiter">> ELSE <<>>)
               \o <<"read_csv">>
    IN IF r.kind = "return"
       THEN [reader |-> [rd EXCEPT !.data = Some(data),
                                   !.detected_format = Some("delimited")],
             ret |-> Return(Some(data)), csv_delimiter |-> Some(delim),
             ops |-> ops \o <<"read_delimited returned">>]
       ELSE [reader |-> rd, ret |-> r, csv_delimiter |-> Some(delim),
             ops |-> ops \o <<"read_delimited raised">>]

\* a variant of read_delimited that sets detected_format before the parse,
\* so that a failing parse leaves it set
read_delimited_format_first(f, rd, delimiter, lib_ok) ==
    LET detected == detect_delimiter(f, rd.encoding, sample_lines_default)
        delim == IF delimiter # None THEN delimiter[1]
                 ELSE IF detected # None THEN <<detected[1]>>
                 ELSE <<9>>
        r == pandas_read(f, rd.encoding, lib_ok)
        data == Table("delimited", Some(delim), None, rd.encoding)
        ops == <<"read_delimited">>
               \o (IF delimiter = None THEN <<"detect_delimiter">> ELSE <<>>)
               \o <<"read_csv">>
    IN IF r.kind = "return"
       THEN [reader |-> [rd EXCEPT !.data = Some(data),
                                   !.detected_format = Some("delimited")],
             ret |-> Return(Some(data)), csv_delimiter |-> Some(delim),
             ops |-> ops \o <<"read_delimited returned">>]
       ELSE [reader |-> [rd EXCEPT !.detected_format = Some("delimited")],
             ret |-> r, csv_delimiter |-> Some(delim),
             ops |-> ops \o <<"read_delimited raised">>]

\* the result holds, besides the reader, the outcome and the operations,
\* the delimiter handed to pd.read_csv
read_delimited(f, rd, delimiter, lib_ok) ==
    LET detected == detect_delimiter(f, rd.encoding, sample_lines_default)
        delim == IF delimiter # None THEN delimiter[1]
                 ELSE IF detected # None THEN <<detected[1]>>
                 ELSE <<9>>
        r == pandas_read(f, rd.encoding, lib_ok)
        data == Table("delimited", Some(delim), None, rd.encoding)
        ops == <<"read_delimited">>
               \o (IF delimiter = None THEN <<"detect_delimiter">> ELSE <<>>)
               \o <<"read_csv">>
    IN IF r.kind = "return"
       THEN [reader |-> [rd EXCEPT !.data = Some(data),
                                   !.detected_format = Some("delimited")],
             ret |-> Return(Some(data)), csv_delimiter |-> Some(delim),
             ops |-> ops \o <<"read_delimited returned">>]
       ELSE [reader |-> rd, ret |-> r, csv_delimiter |-> Some(delim),
             ops |-> ops \o <<"read_delimited raised">>]

read_fixed_width(f, rd, widths, lib_ok) ==
    LET w == IF widths # None THEN widths
             ELSE detect_fixed_widths(f, rd.encoding, fw_sample_lines_default)
        r == pandas_read(f, rd.encoding, lib_ok)
        data == Table("fixed_width", None, w, rd.encoding)
        ops == <<"read_fixed_width">>
               \o (IF widths = None THEN <<"_detect_fixed_widths">> ELSE <<>>)
               \o <<"read_fwf">>
    IN IF r.kind = "return"
       THEN [reader |-> [rd EXCEPT !.data = Some(data),
                                   !.detected_format = Some("fixed_width")],
             ret |-> Return(Some(data)), csv_delimiter |-> None,
             ops |-> ops \o <<"read_fixed_width returned">>]
       ELSE [reader |-> rd, ret |-> r, csv_delimiter |-> None,
             ops |-> ops \o <<"read_fixed_width raised">>]

(***************************************************************************)
(* SybaseDatReader.auto_read                                               *)
(***************************************************************************)
\* a variant of methods with the two readers in the other order
methods_fixed_width_first == <<"read_fixed_width", "read_delimited">>

\* the list of methods the loop goes through
methods == <<"read_delimited", "read_fixed_width">>

\* method(**params) with the empty params of the list
call_method(m, f, rd, lib_ok) ==
    IF m = "read_delimited" THEN read_delimited(f, rd, None, lib_ok)
    ELSE read_fixed_width(f, rd, None, lib_ok)

(***************************************************************************)
(* Specification SpecReader: a caller making calls on one reader.          *)
(* auto_read runs in steps: the encoding, then one step per method of its  *)
(* list, then the raise.                                                   *)
(***************************************************************************)
MaxCalls == 2

\* "a\tb", "a b", "ab"
ReaderContents == {<<>>, <<<<97, 9, 98>>>>, <<<<97, 32, 98>>>>, <<<<97, 98>>>>}

ReaderChardet ==
    {None, Some(NoChardet)}
    \cup {Some([encoding |-> Some("utf-8"), confidence |-> c]) : c \in {7, 9}}

ReaderFiles ==
    {[status |-> s, lines |-> ls, chardet |-> cd] :
        s \in {"ok", "undecodable"}, ls \in ReaderContents, cd \in ReaderChardet}
    \cup {[status |-> s, lines |-> <<>>, chardet |-> None] :
              s \in {"missing", "denied"}}

\* the delimiters and widths a caller passes
CallerDelimiters == {None, Some(<<124>>)}
CallerWidths == {None, Some(<<Some(3)>>)}

InitReader ==
    /\ file \in ReaderFiles
    /\ reader \in {NewReader(e) : e \in {None, Some("utf-8")}}
    /\ pc = "idle"
    /\ arg = [op |-> "none", before |-> reader, i |-> 0,
              delimiter |-> None, csv_delimiter |-> None]
    /\ ret = Return(None)
    /\ trace = <<>>
    /\ ncalls = 0

\* auto_read up to its loop: the encoding is detected when none is set
AutoReadStart ==
    /\ pc = "idle"
    /\ ncalls < MaxCalls
    /\ ncalls' = ncalls + 1
    /\ arg' = [op |-> "auto_read", before |-> reader, i |-> 1,
               delimiter |-> None, csv_delimiter |-> None]
    /\ IF reader.encoding = None
       THEN /\ reader' = [reader EXCEPT !.encoding = Some(detect_encoding(file).value)]
            /\ trace' = <<"detect_encoding">>
       ELSE /\ reader' = reader
            /\ trace' = <<>>
    /\ pc' = "auto_loop"
    /\ ret' = Return(None)
    /\ UNCHANGED file

\* one pass of the loop: the method returns, and auto_read with it, or it
\* raises and the loop goes on
AutoReadTry ==
    /\ pc = "auto_loop"
    /\ arg.i <= Len(methods)
    /\ \E lib_ok \in BOOLEAN :
          LET r == call_method(methods[arg.i], file, reader, lib_ok)
              used == IF r.csv_delimiter # None THEN r.csv_delimiter
                      ELSE arg.csv_delimiter
          IN /\ reader' = r.reader
             /\ trace' = trace \o r.ops
             /\ IF r.ret.kind = "return"
                THEN /\ pc' = "idle"
                     /\ ret' = r.ret
                     /\ arg' = [arg EXCEPT !.csv_delimiter = used]
                ELSE /\ pc' = pc
                     /\ ret' = ret
                     /\ arg' = [arg EXCEPT !.i = @ + 1,
                                           !.csv_delimiter = used]
    /\ UNCHANGED <<file, ncalls>>

\* the loop is over: raise ValueError
AutoReadRaise ==
    /\ pc = "auto_loop"
    /\ arg.i > Len(methods)
    /\ trace' = Append(trace, "raise ValueError")
    /\ ret' = Raise("ValueError")
    /\ pc' = "idle"
    /\ UNCHANGED <<file, reader, arg, ncalls>>

\* a caller's read_delimited(delimiter=...)
CallReadDelimited ==
    /\ pc = "idle"
    /\ ncalls < MaxCalls
    /\ ncalls' = ncalls + 1
    /\ \E delimiter \in CallerDelimiters, lib_ok \in BOOLEAN :
          LET r == read_delimited(file, reader, delimiter, lib_ok)
          IN /\ arg' = [op |-> "read_delimited", before |-> reader, i |-> 0,
                        delimiter |-> delimiter,
                        csv_delimiter |-> r.csv_delimiter]
             /\ reader' = r.reader
             /\ trace' = r.ops
             /\ ret' = r.ret
    /\ UNCHANGED <<file, pc>>

\* a caller's read_fixed_width(widths=...)
CallReadFixedWidth ==
    /\ pc = "idle"
    /\ ncalls < MaxCalls
    /\ ncalls' = ncalls + 1
    /\ \E widths \in CallerWidths, lib_ok \in BOOLEAN :
          LET r == read_fixed_width(file, reader, widths, lib_ok)
          IN /\ arg' = [op |-> "read_fixed_width", before |-> reader, i |-> 0,
                        delimiter |-> None, csv_delimiter |-> None]
             /\ reader' = r.reader
             /\ trace' = r.ops
             /\ ret' = r.ret
    /\ UNCHANGED <<file, pc>>

NextReader ==
    \/ AutoReadStart
    \/ AutoReadTry
    \/ AutoReadRaise
    \/ CallReadDelimited
    \/ CallReadFixedWidth

SpecReader == InitReader /\ [][NextReader]_vars

\* the positions of event e in the current call's trace
At(e) == {k \in 1..Len(trace) : trace[k] = e}
Before(a, b) == \A kb \in At(b) : \E ka \in At(a) : ka < kb

\* C2: within auto_read the encoding is detected exactly when none was
\* supplied, and before anything else; read_delimited is attempted first;
\* read_fixed_width is attempted only after read_delimited has raised;
\* ValueError is raised only after both have raised; and once read_delimited
\* has returned, read_fixed_width is never invoked and auto_read returns
\* read_delimited's table.
C2_AutoReadOrder ==
    arg.op = "auto_read" =>
        /\ (At("detect_encoding") # {}) = (arg.before.encoding = None)
        /\ At("detect_encoding") \subseteq {1}
        /\ Before("read_delimited", "read_fixed_width")
        /\ Before("read_delimited raised", "read_fixed_width")
        /\ Before("read_delimited raised", "raise ValueError")
        /\ Before("read_fixed_width raised", "raise ValueError")
        /\ Cardinality(At("read_delimited")) <= 1
        /\ Cardinality(At("read_fixed_width")) <= 1
        /\ At("read_delimited returned") # {} =>
              /\ At("read_fixed_width") = {}
              /\ pc = "idle"
              /\ ret.kind = "return"
              /\ ret.value = reader.data
              /\ reader.data[1].format = "delimited"
        /\ (pc = "idle" /\ ret.kind = "raise") =>
              /\ ret.value = "ValueError"
              /\ At("raise ValueError") = {Len(trace)}

C2_Witness ==
    /\ arg.op = "auto_read"
    /\ pc = "idle"
    /\ arg.before.encoding = None
    /\ At("read_delimited raised") # {}
    /\ At("read_fixed_width returned") # {}
    /\ reader.data # None
    /\ reader.data[1].format = "fixed_width"

\* the file cannot be opened: it does not exist or access is denied
AccessError == file.status \in {"missing", "denied"}

\* C11: an auto_read on an input file that does not exist or cannot be
\* accessed tries no further reading strategy once the open has failed (no
\* read_fixed_width after the failed read_delimited), and the caller
\* receives that FileNotFoundError or PermissionError, not a ValueError.
C11_AccessErrorSurfaced ==
    (arg.op = "auto_read" /\ AccessError) =>
        /\ At("read_delimited raised") # {} => At("read_fixed_width") = {}
        /\ pc = "idle" => /\ ret.kind = "raise"
                          /\ ret.value = IOError(file)

\* C15: read_delimited never fails because of delimiter detection: read_csv
\* is always reached. With no delimiter supplied it parses with the detected
\* delimiter, or with tab when detect_delimiter returns None, the aborted
\* scan of a file that cannot be opened or decoded included; with a
\* delimiter supplied, detect_delimiter is not invoked and read_csv gets the
\* supplied delimiter unchanged.
C15_DelimiterDefaulted ==
    (At("read_delimited") # {}) =>
        LET enc == reader.encoding
            found == detect_delimiter(file, enc, sample_lines_default)
        IN /\ At("read_csv") # {}
           /\ Before("read_delimited", "read_csv")
           /\ arg.delimiter = None =>
                 /\ At("detect_delimiter") # {}
                 /\ found # None => arg.csv_delimiter = Some(<<found[1]>>)
                 /\ found = None => arg.csv_delimiter = Some(<<9>>)
                 /\ ~CanDecode(file, enc) => arg.csv_delimiter = Some(<<9>>)
           /\ arg.delimiter # None =>
                 /\ At("detect_delimiter") = {}
                 /\ arg.csv_delimiter = arg.delimiter

\* tab is the default after a scan that aborted on the decode failure
C15_Witness ==
    /\ arg.op = "read_delimited"
    /\ arg.delimiter = None
    /\ file.status = "undecodable"
    /\ ~CanDecode(file, reader.encoding)
    /\ arg.csv_delimiter = Some(<<9>>)
    /\ ret.kind = "raise"

\* the strategy whose return ended the last call, None when it raised
LastReturned ==
    IF trace # <<>> /\ trace[Len(trace)] = "read_delimited returned"
    THEN Some("delimited")
    ELSE IF trace # <<>> /\ trace[Len(trace)] = "read_fixed_width returned"
    THEN Some("fixed_width")
    ELSE None

\* C17: over any sequence of read_delimited, read_fixed_width and auto_read
\* calls on one reader, detected_format is None, 'delimited' or
\* 'fixed_width'; it is non-None exactly when data is non-None, and then
\* names the strategy that read data; a read that returns sets it to its own
\* strategy; a read that raises, a raising auto_read and each of its failed
\* attempts included, leaves data and detected_format as they were before
\* the call; and an encoding the caller supplied is never overwritten.
C17_StateChangedOnlyBySuccess ==
    /\ reader.detected_format \in {None, Some("delimited"), Some("fixed_width")}
    /\ reader.detected_format # None <=> reader.data # None
    /\ reader.data # None =>
          reader.data[1].format = reader.detected_format[1]
    /\ (arg.op # "none" /\ LastReturned # None) =>
          /\ pc = "idle"
          /\ ret.kind = "return"
          /\ reader.detected_format = LastReturned
          /\ reader.data = ret.value
    /\ (arg.op # "none" /\ LastReturned = None) =>
          /\ pc = "idle" => ret.kind = "raise"
          /\ reader.data = arg.before.data
          /\ reader.detected_format = arg.before.detected_format
    /\ arg.before.encoding # None => reader.encoding = arg.before.encoding

\* a read that raises after a successful read of the other strategy
C17_Witness ==
    /\ pc = "idle"
    /\ arg.op = "read_delimited"
    /\ ret.kind = "raise"
    /\ reader.detected_format = Some("fixed_width")
    /\ reader.data # None
    /\ reader.encoding = Some("utf-8")

(***************************************************************************)
(* Specification SpecFW: _detect_fixed_widths on every small file of       *)
(* spaces and letters, and on the sample "AA   1" / "BB   2".              *)
(***************************************************************************)
FwLineLen == 4
FwFileLines == 2

\* "AA   1", "BB   2"
FwScenario == <<<<65, 65, 32, 32, 32, 49>>, <<66, 66, 32, 32, 32, 50>>>>

FwFiles ==
    {[status |-> "ok", lines |-> ls, chardet |-> Some(NoChardet)] :
        ls \in SeqsUpTo(SeqsUpTo({32, 65}, FwLineLen), FwFileLines) \cup {FwScenario}}
    \cup {[status |-> s, lines |-> <<<<65, 32, 32, 65>>>>, chardet |-> Some(NoChardet)] :
              s \in {"missing", "denied", "undecodable"}}

InitFW ==
    /\ file \in FwFiles
    /\ reader = NewReader(Some("utf-8"))
    /\ pc = "start"
    /\ arg \in {[sample_lines |-> n] : n \in {1, fw_sample_lines_default}}
    /\ ret = None
    /\ trace = <<>>
    /\ ncalls = 0

DetectFixedWidths ==
    /\ pc = "start"
    /\ ret' = detect_fixed_widths(file, reader.encoding, arg.sample_lines)
    /\ pc' = "done"
    /\ trace' = Append(trace, "_detect_fixed_widths")
    /\ UNCHANGED <<file, reader, arg, ncalls>>

NextFW == DetectFixedWidths

SpecFW == InitFW /\ [][NextFW]_vars

\* the sampled lines, and the 0-based positions where each of them holds a
\* space
FwSampled == Take(file.lines, arg.sample_lines)
SharedSpaces ==
    {pos \in 0..(FwLineLen + 2) :
        \A l \in 1..Len(FwSampled) :
            pos + 1 <= Len(FwSampled[l]) /\ FwSampled[l][pos + 1] = 32}

\* the shared space positions form one run p..q with p >= 2
OneRunFrom(p) ==
    /\ FwSampled # <<>>
    /\ p >= 2
    /\ p \in SharedSpaces
    /\ \A x \in SharedSpaces : x >= p /\ \A y \in p..x : y \in SharedSpaces

\* C9: when the sampled lines share exactly one run of space positions, and
\* it starts at p >= 2, the widths are [p, None]: one boundary, at p, then
\* the open-ended width.
C9_OneRunOneBoundary ==
    (pc = "done" /\ CanDecode(file, reader.encoding)) =>
        \A p \in 2..(FwLineLen + 2) :
            OneRunFrom(p) => ret = Some(<<Some(p), None>>)

\* the sum of the first k entries of a list of finite widths
RECURSIVE SumWidths(_, _)
SumWidths(w, k) == IF k = 0 THEN 0 ELSE SumWidths(w, k - 1) + w[k][1]

\* C16: _detect_fixed_widths returns None exactly when no lines are sampled
\* (the file cannot be read, or has no lines) or no position holds a space
\* in every sampled line, a position past the end of a line not counting;
\* otherwise it returns a list whose last entry is the open-ended width
\* (None), whose other entries are each at least 2, and whose finite widths
\* add up, one after the other, to shared space positions.
C16_WidthsShape ==
    pc = "done" =>
        LET sampled == IF CanDecode(file, reader.encoding) THEN FwSampled
                       ELSE <<>>
        IN /\ ret = None <=> (sampled = <<>> \/ SharedSpaces = {})
           /\ ret # None =>
                 LET w == ret[1]
                     n == Len(w)
                 IN /\ n >= 1
                    /\ w[n] = None
                    /\ \A k \in 1..(n - 1) :
                          /\ w[k] # None
                          /\ w[k][1] >= 2
                          /\ SumWidths(w, k) \in SharedSpaces

\* two boundaries kept among the shared space positions
C16_Witness ==
    /\ pc = "done"
    /\ ret # None
    /\ Len(ret[1]) = 3
    /\ SharedSpaces = {2, 3, 4}
    /\ SumWidths(ret[1], 2) = 4

(***************************************************************************)
(* Text helpers: str.strip, str.replace, re.sub on code points.            *)
(***************************************************************************)
\* the code points str.strip() removes (str.isspace)
Whitespace ==
    {9, 10, 11, 12, 13, 28, 29, 30, 31, 32, 133, 160, 5760, 8232, 8233,
     8239, 8287, 12288} \cup (8192..8202)

RECURSIVE LStrip(_, _)
LStrip(s, chars) ==
    IF s # <<>> /\ Head(s) \in chars THEN LStrip(Tail(s), chars) ELSE s

RECURSIVE RStrip(_, _)
RStrip(s, chars) ==
    IF s # <<>> /\ s[Len(s)] \in chars
    THEN RStrip(SubSeq(s, 1, Len(s) - 1), chars) ELSE s

\* str.strip(chars)
Strip(s, chars) == RStrip(LStrip(s, chars), chars)

\* str.replace(pat, rep) for a non-empty pat: left to right, not overlapping
RECURSIVE Replace(_, _, _)
Replace(s, pat, rep) ==
    IF Len(s) < Len(pat) THEN s
    ELSE IF SubSeq(s, 1, Len(pat)) = pat
         THEN rep \o Replace(SubSeq(s, Len(pat) + 1, Len(s)), pat, rep)
         ELSE <<Head(s)>> \o Replace(Tail(s), pat, rep)

\* re.sub('[^class]', rep, s): each character outside the class replaced
RECURSIVE SubNotClass(_, _, _)
SubNotClass(s, class, rep) ==
    IF s = <<>> THEN <<>>
    ELSE (IF Head(s) \notin class THEN rep ELSE <<Head(s)>>)
         \o SubNotClass(Tail(s), class, rep)

\* re.sub('[class]', rep, s): each character of the class replaced
RECURSIVE SubClass(_, _, _)
SubClass(s, class, rep) ==
    IF s = <<>> THEN <<>>
    ELSE (IF Head(s) \in class THEN rep ELSE <<Head(s)>>)
         \o SubClass(Tail(s), class, rep)

(***************************************************************************)
(* clean_for_excel: the column names.                                      *)
(***************************************************************************)
\* [a-zA-Z0-9_]
NameChars == (97..122) \cup (65..90) \cup (48..57) \cup {95}

\* "Column"
DefaultName == <<67, 111, 108, 117, 109, 110>>

\* a variant of clean_col that strips the underscores at the end only
clean_col_rstrip_only(col) ==
    LET subbed == SubNotClass(col, NameChars, <<95>>)
        stripped == RStrip(subbed, {95})
    IN IF stripped = <<>> THEN DefaultName ELSE stripped

\* one pass of the loop over df.columns
clean_col(col) ==
    LET subbed == SubNotClass(col, NameChars, <<95>>)
        stripped == Strip(subbed, {95})
    IN IF stripped = <<>> THEN DefaultName ELSE stripped

(***************************************************************************)
(* clean_for_excel: one value of an object column after astype(str).       *)
(***************************************************************************)
\* [\x01-\x1f\x7f-\x9f]
ControlChars == (1..31) \cup (127..159)

\* the literal of lines 241-242: the two quote characters of line 241 open
\* a triple-quoted string that runs to line 242
QuotePattern ==
    <<
      44, 32, 34, 39, 34, 44, 32, 114, 101, 103, 101, 120, 61, 70, 97,
      108, 115, 101, 41, 10, 32, 32, 32, 32, 32, 32, 32, 32, 32, 32, 32,
      32, 100, 102, 91, 99, 111, 108, 93, 32, 61, 32, 100, 102, 91, 99,
      111, 108, 93, 46, 115, 116, 114, 46, 114, 101, 112, 108, 97, 99,
      101, 40
    >>

\* "nan"
NanText == <<110, 97, 110>>

\* the replacements of one value, up to the strip
clean_text(v) ==
    LET a == Replace(v, <<0>>, <<>>)
        b == SubClass(a, ControlChars, <<>>)
        c == Replace(b, <<34>>, <<34>>)
        d == Replace(c, <<34>>, <<34>>)
        e == Replace(d, QuotePattern, <<39>>)
        f == Replace(e, <<8218, 196, 236>>, <<45>>)
        g == Replace(f, <<8218, 196, 238>>, <<45>>)
        h == Replace(g, <<8218, 196, 182>>, <<46, 46, 46>>)
    IN Strip(h, Whitespace)

\* the value of the cell after the last replace: 'nan' becomes NaN
clean_value(v) ==
    LET t == clean_text(v) IN IF t = NanText THEN None ELSE Some(t)

(***************************************************************************)
(* Specification SpecName: the name rewriting, applied and applied again.  *)
(***************************************************************************)
MaxNameLen == 3

\* 'A', '1', '_', ' ', '#', e-acute
NameAlphabet == {65, 49, 95, 32, 35, 233}

\* "Item #"
ItemHash == <<73, 116, 101, 109, 32, 35>>

InitName ==
    /\ file = [status |-> "ok", lines |-> <<>>, chardet |-> None]
    /\ reader = NewReader(None)
    /\ pc = "start"
    /\ arg \in {[name |-> n] : n \in SeqsUpTo(NameAlphabet, MaxNameLen) \cup {ItemHash}}
    /\ ret = <<>>
    /\ trace = <<>>
    /\ ncalls = 0

\* the name rewritten
CleanName ==
    /\ pc = "start"
    /\ ret' = <<clean_col(arg.name)>>
    /\ pc' = "once"
    /\ trace' = Append(trace, "clean_col")
    /\ UNCHANGED <<file, reader, arg, ncalls>>

\* the rewritten name rewritten again
CleanNameAgain ==
    /\ pc = "once"
    /\ ret' = Append(ret, clean_col(ret[1]))
    /\ pc' = "twice"
    /\ trace' = Append(trace, "clean_col")
    /\ UNCHANGED <<file, reader, arg, ncalls>>

NextName == CleanName \/ CleanNameAgain

SpecName == InitName /\ [][NextName]_vars

IsLetterDigitUnderscore(c) ==
    \/ c >= 65 /\ c <= 90
    \/ c >= 97 /\ c <= 122
    \/ c >= 48 /\ c <= 57
    \/ c = 95

\* C7: every rewritten name is non-empty, made of letters, digits and
\* underscores only (or is "Column"), neither starts nor ends with an
\* underscore, and rewriting it again leaves it unchanged; "Item #" becomes
\* "Item".
C7_NameTotalIdempotent ==
    /\ pc \in {"once", "twice"} =>
          /\ Len(ret[1]) >= 1
          /\ \A k \in 1..Len(ret[1]) : IsLetterDigitUnderscore(ret[1][k])
          /\ ret[1][1] # 95
          /\ ret[1][Len(ret[1])] # 95
          /\ arg.name = ItemHash => ret[1] = <<73, 116, 101, 109>>
    /\ pc = "twice" => ret[2] = ret[1]

C7_Witness ==
    /\ pc = "twice"
    /\ arg.name = <<95, 65, 35>>
    /\ ret = <<<<65>>, <<65>>>>

(***************************************************************************)
(* Specification SpecText: the cleaning of one text value.                 *)
(***************************************************************************)
MaxTextLen == 3

\* \x00, \x01, ' ', 'a', left double quote, right single quote
TextAlphabet == {0, 1, 32, 97, 8220, 8217}

\* "Caf\x00e “Test”"
CafeTest ==
    <<67, 97, 102, 0, 101, 32, 8220, 84, 101, 115, 116, 8221>>

InitText ==
    /\ file = [status |-> "ok", lines |-> <<>>, chardet |-> None]
    /\ reader = NewReader(None)
    /\ pc = "start"
    /\ arg \in {[text |-> t] : t \in SeqsUpTo(TextAlphabet, MaxTextLen) \cup {CafeTest}}
    /\ ret = None
    /\ trace = <<>>
    /\ ncalls = 0

CleanText ==
    /\ pc = "start"
    /\ ret' = clean_value(arg.text)
    /\ pc' = "done"
    /\ trace' = Append(trace, "clean_text")
    /\ UNCHANGED <<file, reader, arg, ncalls>>

NextText == CleanText

SpecText == InitText /\ [][NextText]_vars

CurlyQuotes == {8216, 8217, 8220, 8221}

\* C10: the cleaned value holds no null byte, no control character and no
\* curly quote: each curly double quote has become '"' and each curly
\* single quote "'"; "Caf\x00e “Test”" becomes 'Cafe "Test"'.
C10_NoNullNoControlNoCurly ==
    (pc = "done" /\ ret # None) =>
        /\ \A k \in 1..Len(ret[1]) :
              ret[1][k] \notin ({0} \cup ControlChars \cup CurlyQuotes)
        /\ arg.text = CafeTest =>
              ret[1] = <<67, 97, 102, 101, 32, 34, 84, 101, 115, 116, 34>>

(***************************************************************************)
(* Tables.  A DataFrame is a sequence of columns [name, dtype, cells]; a   *)
(* cell is a text, a number or NaN.                                        *)
(***************************************************************************)
Str(v) == [t |-> "str", v |-> v]
Num(n) == [t |-> "num", v |-> <<n>>]
NaN == [t |-> "nan", v |-> <<>>]

Column(name, dtype, cells) == [name |-> name, dtype |-> dtype, cells |-> cells]

\* len(df)
NRows(df) == IF df = <<>> THEN 0 ELSE Len(df[1].cells)

\* pd.api.types.is_numeric_dtype
is_numeric_dtype(dtype) == dtype \in {"int64", "float64", "bool"}

\* Series.str.strip() on an object column: NaN for what is not a string
str_strip(cells) ==
    [i \in 1..Len(cells) |->
        IF cells[i].t = "str" THEN Str(Strip(cells[i].v, Whitespace)) ELSE NaN]

\* df.replace('', np.nan) on one column
replace_empty(cells) ==
    [i \in 1..Len(cells) |-> IF cells[i] = Str(<<>>) THEN NaN ELSE cells[i]]

\* the number a text of decimal digits denotes
RECURSIVE DigitsValue(_)
DigitsValue(v) ==
    IF v = <<>> THEN 0
    ELSE 10 * DigitsValue(SubSeq(v, 1, Len(v) - 1)) + (v[Len(v)] - 48)

\* pd.to_numeric(errors='coerce') on one value: the texts of the models are
\* made of digits, letters and spaces, and the digit strings are the ones
\* that parse
to_numeric_value(c) ==
    IF c.t = "num" THEN c
    ELSE IF /\ c.t = "str"
            /\ c.v # <<>>
            /\ \A k \in 1..Len(c.v) : c.v[k] \in 48..57
         THEN Num(DigitsValue(c.v))
         ELSE NaN

to_numeric(cells) == [i \in 1..Len(cells) |-> to_numeric_value(cells[i])]

\* Series.notna().sum()
notna_sum(cells) == Cardinality({i \in 1..Len(cells) : cells[i] # NaN})

\* the dtype of a numeric series: integers only without NaN
numeric_dtype(cells) ==
    IF \E i \in 1..Len(cells) : cells[i] = NaN THEN "float64" ELSE "int64"

\* a variant of coerce_test that converts at exactly one half
coerce_test_at_half(n_numeric, n_rows) == 2 * n_numeric >= n_rows

\* numeric_series.notna().sum() / len(df) > 0.5, in integers; on an empty
\* table the quotient is nan and the test is false
coerce_test(n_numeric, n_rows) == 2 * n_numeric > n_rows

\* the second loop of clean_data on one column
convert_numeric(c, n_rows) ==
    IF is_numeric_dtype(c.dtype) THEN c
    ELSE LET numeric_series == to_numeric(c.cells)
         IN IF coerce_test(notna_sum(numeric_series), n_rows)
            THEN Column(c.name, numeric_dtype(numeric_series), numeric_series)
            ELSE c

strip_column(c) ==
    IF c.dtype = "object" THEN [c EXCEPT !.cells = str_strip(c.cells)] ELSE c

replace_empty_column(c) == [c EXCEPT !.cells = replace_empty(c.cells)]

\* a variant of clean_data that replaces '' before it strips
clean_data_replace_first(df) ==
    [j \in 1..Len(df) |->
        convert_numeric(strip_column(replace_empty_column(df[j])), NRows(df))]

\* clean_data: strip, then '' to NaN, then the numeric conversion
clean_data(df) ==
    [j \in 1..Len(df) |->
        convert_numeric(replace_empty_column(strip_column(df[j])), NRows(df))]

(***************************************************************************)
(* Specification SpecClean: clean_data, applied and applied again, on      *)
(* tables of one text column and, optionally, one numeric column.          *)
(***************************************************************************)
MaxRows == 3

\* "", " ", "1", "2", " 1 ", "12", "a", " a", "1 a"
CellTexts ==
    {<<>>, <<32>>, <<49>>, <<50>>, <<32, 49, 32>>, <<49, 50>>, <<97>>,
     <<32, 97>>, <<49, 32, 97>>}

TextCells == {Str(v) : v \in CellTexts} \cup {NaN}

\* "ID", "N"
NameID == <<73, 68>>
NameN == <<78>>

CleanTables ==
    UNION {
        LET numcol == Column(NameN, "float64", [i \in 1..n |-> IF i = 1 THEN NaN ELSE Num(i)])
        IN {<<Column(NameID, "object", cells)>> : cells \in [1..n -> TextCells]}
           \cup {<<Column(NameID, "object", cells), numcol>> :
                    cells \in [1..n -> {Str(<<49>>), Str(<<97>>)}]}
        : n \in 0..MaxRows}

InitClean ==
    /\ file = [status |-> "ok", lines |-> <<>>, chardet |-> None]
    /\ reader = NewReader(None)
    /\ pc = "start"
    /\ arg \in {[df |-> t] : t \in CleanTables}
    /\ ret = <<>>
    /\ trace = <<>>
    /\ ncalls = 0

CleanData ==
    /\ pc = "start"
    /\ ret' = <<clean_data(arg.df)>>
    /\ pc' = "once"
    /\ trace' = Append(trace, "clean_data")
    /\ UNCHANGED <<file, reader, arg, ncalls>>

CleanDataAgain ==
    /\ pc = "once"
    /\ ret' = Append(ret, clean_data(ret[1]))
    /\ pc' = "twice"
    /\ trace' = Append(trace, "clean_data")
    /\ UNCHANGED <<file, reader, arg, ncalls>>

NextClean == CleanData \/ CleanDataAgain

SpecClean == InitClean /\ [][NextClean]_vars

\* C5: cleaning a cleaned table changes nothing: same names, same dtypes,
\* same cells.
C5_CleanDataIdempotent ==
    pc = "twice" => ret[2] = ret[1]

C5_Witness ==
    /\ pc = "twice"
    /\ arg.df = <<Column(NameID, "object", <<Str(<<32>>), Str(<<32, 49, 32>>), Str(<<32, 97>>)>>)>>
    /\ ret[1] = <<Column(NameID, "object", <<NaN, Str(<<49>>), Str(<<97>>)>>)>>

\* what a text cell is once stripped, with '' as NaN
Stripped(c) ==
    IF c.t = "str" /\ Strip(c.v, {32}) # <<>> THEN Str(Strip(c.v, {32})) ELSE NaN

\* a stripped cell that is a string of digits
IsDigits(c) ==
    /\ c.t = "str"
    /\ \A k \in 1..Len(c.v) : c.v[k] >= 48 /\ c.v[k] <= 57

\* of the cells of the text column: how many are non-null once stripped,
\* and how many of those parse as numbers
TextColumn == arg.df[1].cells
NonNull == {i \in 1..Len(TextColumn) : Stripped(TextColumn[i]) # NaN}
Parsing == {i \in NonNull : IsDigits(Stripped(TextColumn[i]))}

\* the text column came out numeric
Coerced == ret[1][1].dtype # "object"

\* every cell of a coerced column is the number parsed, or null; every cell
\* of a column left alone is its stripped text, or null
ColumnWide ==
    \A i \in 1..Len(TextColumn) :
        LET c == ret[1][1].cells[i]
        IN IF Coerced
           THEN IF i \in Parsing
                THEN c = Num(DigitsValue(Stripped(TextColumn[i]).v))
                ELSE c = NaN
           ELSE c = Stripped(TextColumn[i])

\* C6 as claimed: the text column becomes numeric exactly when more than
\* half of its non-null values parse, and the decision is column-wide.
C6_MajorityOfNonNull ==
    pc = "once" =>
        /\ Coerced = (2 * Cardinality(Parsing) > Cardinality(NonNull))
        /\ ColumnWide

\* C6 as amended: the text column becomes numeric exactly when the values
\* that parse are more than half of the rows of the table, nulls counted;
\* the decision is column-wide.
C6_MajorityOfRows ==
    pc = "once" =>
        /\ Coerced = (2 * Cardinality(Parsing) > Len(TextColumn))
        /\ ColumnWide
        /\ arg.df = <<Column(NameID, "object", <<Str(<<49>>), Str(<<50>>)>>)>>
              => ret[1] = <<Column(NameID, "int64", <<Num(1), Num(2)>>)>>

C6_Witness ==
    /\ pc = "once"
    /\ arg.df = <<Column(NameID, "object", <<Str(<<32, 49, 32>>), Str(<<97>>), Str(<<49, 50>>)>>)>>
    /\ ret[1] = <<Column(NameID, "float64", <<Num(1), NaN, Num(12)>>)>>

(***************************************************************************)
(* clean_for_excel on a table.  The names are rewritten in place first.    *)
(* Then the loop goes through the columns by name: df[col] of a name held  *)
(* by two columns is a DataFrame, which has no dtype, so the loop raises   *)
(* there, the columns before it already cleaned.                           *)
(***************************************************************************)
\* astype(str) on one cell of an object column; digits of a number
RECURSIVE DigitsOf(_)
DigitsOf(n) ==
    IF n < 10 THEN <<48 + n>> ELSE DigitsOf(n \div 10) \o <<48 + (n % 10)>>

astype_str(c) ==
    CASE c.t = "str" -> c.v
      [] c.t = "num" -> DigitsOf(c.v[1])
      [] OTHER -> NanText

\* lines 228-253 on one column
clean_column(c) ==
    IF c.dtype # "object" THEN c
    ELSE [c EXCEPT !.cells =
            [i \in 1..Len(c.cells) |->
                LET v == clean_value(astype_str(c.cells[i]))
                IN IF v = None THEN NaN ELSE Str(v[1])]]

\* lines 211-224: the names rewritten
rename_columns(df) ==
    [j \in 1..Len(df) |-> [df[j] EXCEPT !.name = clean_col(df[j].name)]]

HasDuplicateName(df, j) == \E k \in 1..Len(df) : k # j /\ df[k].name = df[j].name

\* the table as the call leaves it, and whether the call raised
clean_for_excel(df) ==
    LET renamed == rename_columns(df)
        dup == {j \in 1..Len(renamed) : HasDuplicateName(renamed, j)}
    IN IF dup = {}
       THEN [raised |-> FALSE,
             df |-> [j \in 1..Len(renamed) |-> clean_column(renamed[j])]]
       ELSE LET first == CHOOSE j \in dup : \A k \in dup : j <= k
            IN [raised |-> TRUE,
                df |-> [j \in 1..Len(renamed) |->
                          IF j < first THEN clean_column(renamed[j])
                          ELSE renamed[j]]]

(***************************************************************************)
(* Output paths, and the files on disk during an export.                   *)
(***************************************************************************)
\* ".xlsx", ".csv"
DotXlsx == <<46, 120, 108, 115, 120>>
DotCsv == <<46, 99, 115, 118>>

\* the directory part of a path: up to the last '/', or empty
RECURSIVE DirOf(_)
DirOf(path) ==
    IF path = <<>> THEN <<>>
    ELSE IF path[Len(path)] = 47 THEN SubSeq(path, 1, Len(path) - 1)
    ELSE DirOf(SubSeq(path, 1, Len(path) - 1))

\* output_path.replace('.xlsx', '.csv')
csv_path(output_path) == Replace(output_path, DotXlsx, DotCsv)

\* a write goes through only into a directory that exists and is writable
CanWrite(fs, path) == DirOf(path) \in fs.dirs

Written(fs, path, kind, df) ==
    [fs EXCEPT !.written = Append(@, [path |-> path, kind |-> kind, df |-> df])]

(***************************************************************************)
(* Specification SpecExport: export_to_excel in its three steps, and the   *)
(* save step of convert_dbf_properly in its two.  DataFrame.to_excel is    *)
(* external: it fails where the directory cannot be written, and may fail  *)
(* for reasons of its own (lib_ok).                                        *)
(***************************************************************************)
\* "a.xlsx", "a.xls", "a", "d/a.xlsx", "d.xlsx/a.xlsx", "a.xlsx.xlsx"
OutputPaths ==
    {<<97>> \o DotXlsx,
     <<97, 46, 120, 108, 115>>,
     <<97>>,
     <<100, 47, 97>> \o DotXlsx,
     <<100>> \o DotXlsx \o <<47, 97>> \o DotXlsx,
     <<97>> \o DotXlsx \o DotXlsx}

\* the directories that may exist: "", "d", "d.xlsx", "d.csv"
Directories == {<<>>, <<100>>, <<100>> \o DotXlsx, <<100>> \o DotCsv}

\* "Item #" with a text holding a null byte; "A#" and "A " whose names
\* collide once rewritten; no rows
ExportTables ==
    {<<Column(ItemHash, "object", <<Str(<<97, 0>>)>>)>>,
     <<Column(<<65, 35>>, "object", <<Str(<<97, 0>>)>>),
       Column(<<65, 32>>, "object", <<Str(<<1, 98>>)>>)>>,
     <<Column(NameN, "float64", <<Num(1), NaN>>)>>,
     <<Column(NameN, "object", <<>>)>>}

InitExport ==
    /\ file \in {[dirs |-> ds, written |-> <<>>] : ds \in SUBSET Directories}
    /\ reader = NewReader(None)
    /\ pc = "start"
    /\ arg \in {[op |-> o, df |-> t, output_path |-> p,
                 columns |-> [j \in 1..Len(t) |-> t[j].name]] :
                  o \in {"export_to_excel", "convert_dbf_properly"},
                  t \in ExportTables, p \in OutputPaths}
    /\ ret = Return(<<>>)
    /\ trace = <<>>
    /\ ncalls = 0

\* lines 260-270: clean_for_excel, then to_excel with the sheet name
ExportNamedSheet ==
    /\ pc = "start"
    /\ arg.op = "export_to_excel"
    /\ \E lib_ok \in BOOLEAN :
          LET cleaned == clean_for_excel(arg.df)
              ok == ~cleaned.raised /\ lib_ok /\ CanWrite(file, arg.output_path)
          IN /\ arg' = [arg EXCEPT !.df = cleaned.df]
             /\ IF ok
                THEN /\ file' = Written(file, arg.output_path, "xlsx named sheet", cleaned.df)
                     /\ trace' = <<"clean_for_excel", "to_excel sheet_name", "written">>
                     /\ ret' = Return(arg.output_path)
                     /\ pc' = "done"
                ELSE /\ file' = file
                     /\ trace' = IF cleaned.raised
                                 THEN <<"clean_for_excel", "failed">>
                                 ELSE <<"clean_for_excel", "to_excel sheet_name", "failed">>
                     /\ ret' = ret
                     /\ pc' = "tier2"
    /\ UNCHANGED <<reader, ncalls>>

\* lines 276-279: to_excel without the sheet name
ExportBasic ==
    /\ pc = "tier2"
    /\ \E lib_ok \in BOOLEAN :
          IF lib_ok /\ CanWrite(file, arg.output_path)
          THEN /\ file' = Written(file, arg.output_path, "xlsx", arg.df)
               /\ trace' = trace \o <<"to_excel", "written">>
               /\ ret' = Return(arg.output_path)
               /\ pc' = "done"
          ELSE /\ file' = file
               /\ trace' = trace \o <<"to_excel", "failed">>
               /\ ret' = ret
               /\ pc' = "tier3"
    /\ UNCHANGED <<reader, arg, ncalls>>

\* lines 280-286: to_csv at the substitute path; what it raises goes to the
\* caller
ExportCsv ==
    /\ pc = "tier3"
    /\ IF CanWrite(file, csv_path(arg.output_path))
       THEN /\ file' = Written(file, csv_path(arg.output_path), "csv utf-8-sig", arg.df)
            /\ trace' = trace \o <<"to_csv", "written">>
            /\ ret' = Return(csv_path(arg.output_path))
       ELSE /\ file' = file
            /\ trace' = trace \o <<"to_csv", "failed">>
            /\ ret' = Raise("OSError")
    /\ pc' = "done"
    /\ UNCHANGED <<reader, arg, ncalls>>

\* convert_dbf_to_excel.py lines 121-133: the one to_excel of the save step
DbfSaveExcel ==
    /\ pc = "start"
    /\ arg.op = "convert_dbf_properly"
    /\ \E lib_ok \in BOOLEAN :
          IF lib_ok /\ CanWrite(file, arg.output_path)
          THEN /\ file' = Written(file, arg.output_path, "xlsx", arg.df)
               /\ trace' = <<"to_excel", "written">>
               /\ ret' = Return(arg.output_path)
               /\ pc' = "done"
          ELSE /\ file' = file
               /\ trace' = <<"to_excel", "failed">>
               /\ ret' = ret
               /\ pc' = "dbf_csv"
    /\ UNCHANGED <<reader, arg, ncalls>>

\* convert_dbf_to_excel.py lines 135-148: to_csv at the substitute path;
\* what it raises is caught by the function's own except, which returns None
DbfSaveCsv ==
    /\ pc = "dbf_csv"
    /\ IF CanWrite(file, csv_path(arg.output_path))
       THEN /\ file' = Written(file, csv_path(arg.output_path), "csv", arg.df)
            /\ trace' = trace \o <<"to_csv", "written">>
            /\ ret' = Return(csv_path(arg.output_path))
       ELSE /\ file' = file
            /\ trace' = trace \o <<"to_csv", "failed">>
            /\ ret' = Return(<<>>)
    /\ pc' = "done"
    /\ UNCHANGED <<reader, arg, ncalls>>

NextExport ==
    \/ ExportNamedSheet
    \/ ExportBasic
    \/ ExportCsv
    \/ DbfSaveExcel
    \/ DbfSaveCsv

SpecExport == InitExport /\ [][NextExport]_vars

\* C3: with a non-empty table and a writable directory, export_to_excel
\* goes through (1) the spreadsheet with the named sheet, (2) the
\* spreadsheet without it, (3) the text file, each only after the one
\* before it failed, and ends with exactly one of them having written a
\* file.
C3_ThreeTierAlwaysWrites ==
    (/\ arg.op = "export_to_excel"
     /\ NRows(arg.df) > 0
     /\ CanWrite(file, arg.output_path)) =>
        /\ pc = "tier2" => trace[Len(trace)] = "failed"
        /\ pc = "tier3" =>
              /\ trace[Len(trace)] = "failed"
              /\ trace[Len(trace) - 1] = "to_excel"
        /\ Len(file.written) <= 1
        /\ pc = "done" =>
              /\ ret.kind = "return"
              /\ Len(file.written) = 1
              /\ trace[Len(trace)] = "written"
              /\ file.written[1].kind =
                    (CASE trace[Len(trace) - 1] = "to_excel sheet_name" -> "xlsx named sheet"
                       [] trace[Len(trace) - 1] = "to_excel" -> "xlsx"
                       [] OTHER -> "csv utf-8-sig")

\* the entries of a list are pairwise distinct
Distinct(names) ==
    \A j, k \in 1..Len(names) : j # k => names[j] # names[k]

ColumnNames(df) == [j \in 1..Len(df) |-> df[j].name]

\* C14: the column names of a table stay unique through an export: for a
\* table whose column names are pairwise distinct when export_to_excel is
\* called, the names after clean_for_excel's rewriting are pairwise distinct,
\* as many and in the same order, in the table at hand and in every file
\* written.
C14_ColumnNamesUnique ==
    (arg.op = "export_to_excel" /\ Distinct(arg.columns)) =>
        /\ Len(arg.df) = Len(arg.columns)
        /\ Distinct(ColumnNames(arg.df))
        /\ pc # "start" =>
              ColumnNames(arg.df) =
                  [j \in 1..Len(arg.columns) |-> clean_col(arg.columns[j])]
        /\ \A w \in 1..Len(file.written) :
              Distinct(ColumnNames(file.written[w].df))

\* the path ends with the extension
EndsWith(path, ext) ==
    /\ Len(path) >= Len(ext)
    /\ SubSeq(path, Len(path) - Len(ext) + 1, Len(path)) = ext

\* C4: when the spreadsheet writing has failed, the call does not raise; it
\* has written a text file in the directory of the requested path, at a
\* path that ends in the text extension and differs from the requested one,
\* and that is the path it reports.  For export_to_excel and for the save
\* step of convert_dbf_properly.
C4_CsvSubstitutePath ==
    (/\ pc = "done"
     /\ CanWrite(file, arg.output_path)
     /\ "to_csv" \in {trace[k] : k \in 1..Len(trace)}) =>
        /\ ret.kind = "return"
        /\ Len(file.written) = 1
        /\ file.written[1].path = ret.value
        /\ ret.value # arg.output_path
        /\ DirOf(ret.value) = DirOf(arg.output_path)
        /\ EndsWith(ret.value, DotCsv)

(***************************************************************************)
(* convert_dbf_to_excel.py: the record loops of convert_dbf_properly and   *)
(* convert_with_field_mapping.  The DBF table, external to the repository, *)
(* yields records; a field of a record holds the value record.get gives,   *)
(* or raises when it is got.  A record converted is the list of its        *)
(* values in the order of the fields.                                      *)
(***************************************************************************)
\* Python's None among the values of a record
NoneValue == [t |-> "none", v |-> <<>>]

Bool(b) == [t |-> "bool", v |-> <<b>>]

DbfField(raises, value) == [raises |-> raises, value |-> value]

\* the number of errors kept: 'if len(errors) < 5'
max_errors == 5

\* a variant of errors_append that keeps every error
errors_append_uncapped(errors, e) == Append(errors, e)

\* if len(errors) < 5: errors.append(...)
errors_append(errors, e) ==
    IF Len(errors) < max_errors THEN Append(errors, e) ELSE errors

\* the loop over table.field_names for record i of convert_dbf_properly,
\* from field j on: the values of the fields, and the errors list
RECURSIVE read_fields(_, _, _, _)
read_fields(record, i, j, errors) ==
    IF j > Len(record) THEN [dict |-> <<>>, errors |-> errors]
    ELSE IF record[j].raises
         THEN LET rest == read_fields(record, i, j + 1,
                                      errors_append(errors, [field |-> j, record |-> i]))
              IN [rest EXCEPT !.dict = <<NoneValue>> \o @]
         ELSE LET rest == read_fields(record, i, j + 1, errors)
              IN [rest EXCEPT !.dict = <<record[j].value>> \o @]

\* the truth value of a value: an empty text and zero are false
Truthy(value) ==
    /\ value # NoneValue
    /\ value # Str(<<>>)
    /\ value # Num(0)

\* float(value): a number, or a text that parses as one; raises otherwise
float(value) ==
    LET n == to_numeric_value(IF value.t = "str"
                              THEN Str(Strip(value.v, Whitespace)) ELSE value)
    IN IF n = NaN THEN Raise("ValueError") ELSE Return(n)

\* the body of the try for one field of convert_with_field_mapping; str() of
\* a text is the text
convert_field(field, field_type) ==
    LET value == field.value
    IN IF field.raises THEN Raise("Exception")
       ELSE IF value = NoneValue THEN Return(NoneValue)
       ELSE IF field_type = "C"
            THEN Return(IF Truthy(value) THEN Str(Strip(value.v, Whitespace))
                        ELSE Str(<<>>))
       ELSE IF field_type \in {"N", "F"}
            THEN IF Truthy(value) THEN float(value) ELSE Return(Num(0))
       ELSE IF field_type = "L" THEN Return(Bool(Truthy(value)))
       ELSE Return(value)

\* the loop over fields_info for one record: a field whose conversion raises
\* becomes None
convert_record(record, fields) ==
    [j \in 1..Len(record) |->
        LET r == convert_field(record[j], fields[j])
        IN IF r.kind = "raise" THEN NoneValue ELSE r.value]

(***************************************************************************)
(* Specification SpecDbf: the two record loops, one record a step, over    *)
(* every small table of a character field and a numeric field.             *)
(***************************************************************************)
MaxRecords == 3

\* the type tags of the fields of the table
DbfFieldTypes == <<"C", "N">>

\* " a", "x"
CharValues == {Str(<<32, 97>>), Str(<<>>)}
NumValues == {NoneValue, Num(2), Str(<<120>>)}

DbfRecords ==
    {<<c, n>> : c \in {DbfField(TRUE, NoneValue)}
                        \cup {DbfField(FALSE, v) : v \in CharValues},
                n \in {DbfField(TRUE, NoneValue)}
                        \cup {DbfField(FALSE, v) : v \in NumValues}}

InitDbf ==
    /\ file \in {[fields |-> DbfFieldTypes, records |-> rs] :
                    rs \in SeqsUpTo(DbfRecords, MaxRecords)}
    /\ reader = NewReader(None)
    /\ pc = "records"
    /\ arg \in {[op |-> o, i |-> 0] :
                  o \in {"convert_dbf_properly", "convert_with_field_mapping"}}
    /\ ret = [records |-> <<>>, errors |-> <<>>]
    /\ trace = <<>>
    /\ ncalls = 0

\* one pass of the loop of convert_dbf_properly, on record i (from 0)
DbfReadRecord ==
    /\ pc = "records"
    /\ arg.op = "convert_dbf_properly"
    /\ arg.i < Len(file.records)
    /\ LET r == read_fields(file.records[arg.i + 1], arg.i, 1, ret.errors)
       IN ret' = [records |-> Append(ret.records, r.dict), errors |-> r.errors]
    /\ arg' = [arg EXCEPT !.i = @ + 1]
    /\ UNCHANGED <<file, reader, pc, trace, ncalls>>

\* one pass of the loop of convert_with_field_mapping, which keeps no errors
DbfConvertRecord ==
    /\ pc = "records"
    /\ arg.op = "convert_with_field_mapping"
    /\ arg.i < Len(file.records)
    /\ ret' = [ret EXCEPT !.records =
                  Append(@, convert_record(file.records[arg.i + 1], file.fields))]
    /\ arg' = [arg EXCEPT !.i = @ + 1]
    /\ UNCHANGED <<file, reader, pc, trace, ncalls>>

\* the table has no more records
DbfEndOfRecords ==
    /\ pc = "records"
    /\ arg.i = Len(file.records)
    /\ pc' = "read"
    /\ UNCHANGED <<file, reader, arg, ret, trace, ncalls>>

NextDbf == DbfReadRecord \/ DbfConvertRecord \/ DbfEndOfRecords

SpecDbf == InitDbf /\ [][NextDbf]_vars

\* the conversion of field j of record r (from 1) fails: getting it raises,
\* or, in convert_with_field_mapping, it is a numeric field holding a text
\* that is no number
FieldFails(r, j) ==
    LET f == file.records[r][j]
    IN \/ f.raises
       \/ /\ arg.op = "convert_with_field_mapping"
          /\ file.fields[j] = "N"
          /\ f.value = Str(<<120>>)

\* the value a field that does not fail is converted to: as it is in
\* convert_dbf_properly; the trimmed text of a character field and the
\* number of a numeric field in convert_with_field_mapping
Converted(r, j) ==
    LET value == file.records[r][j].value
    IN IF arg.op = "convert_dbf_properly" \/ value = NoneValue THEN value
       ELSE IF value = Str(<<32, 97>>) THEN Str(<<97>>)
       ELSE value

Failures ==
    {<<r, j>> \in (1..arg.i) \X (1..Len(file.fields)) : FieldFails(r, j)}

====
